---- MODULE Spec2Model ----
(***************************************************************************)
(* The migration engine of migrate_milvus_to_tidb.py: the CLI entry point  *)
(* `main`, the schema resolution at the head of `migrate_range`, and the   *)
(* page loop (fetch, existence probe, staging, bulk insert or simulation). *)
(* The source store is a stable snapshot; the destination table is the     *)
(* only durable state.  Several invocations follow one another, with the   *)
(* same collection, range and page size, so that re-runs can be compared.  *)
(***************************************************************************)
EXTENDS Integers, Sequences, FiniteSets, TLC

\* ------------------------------------------------------------------ bounds
MaxId == 2
MaxRows == 3
MaxPage == 2
MaxRuns == 2
MaxOdd == 1
MaxFaults == 1

\* Python's None, for `end`, for a missing "id" and for r.get(...) of an
\* absent key.  Real ids are >= 0 in the model.
None == -1

Ids == 0..MaxId
Ends == {None} \cup (0..(MaxId + 1))
PageSizes == 1..MaxPage

VARIABLES
    milvus,      \* source store: [has_collection, rows]; rows is the snapshot
    tidb,        \* destination store: [has_table, rows]; rows is a set of ids
    env,         \* what the environment (.env) provides of the connection settings
    faults,      \* how many store calls may still fail on a transient error
    start, end, page_size,      \* CLI arguments, the same in every invocation
    dry_run,     \* --dry-run of the current invocation
    pc,          \* position of the current invocation
    offset, scanned, skipped, inserted,      \* locals of migrate_range
    page, page_ids, existing, to_insert,     \* locals of the loop body
    calls,       \* store calls issued by the current invocation, in order
    tidb0,       \* the destination when the current invocation started
    invocations, \* how many times the operator invokes the command
    run,         \* how many invocations have started
    history      \* one record per earlier invocation

vars == <<milvus, tidb, env, faults, start, end, page_size, dry_run, pc, offset, scanned,
          skipped, inserted, page, page_ids, existing, to_insert, calls,
          tidb0, invocations, run, history>>

args == <<milvus, env, start, end, page_size, invocations>>
locals == <<offset, scanned, skipped, inserted, page, page_ids, existing, to_insert>>

\* ----------------------------------------------------------- source rows
\* A row as the source query returns it: a dict.  "pk" is the stored primary
\* key the store evaluates the filter on; the keys "id" and "embedding" are
\* what the returned dict carries (either may be absent).
PlainRow(i) == [pk |-> i, id |-> i, embedding |-> <<"1", "2">>]
NoIdRow(i) == [pk |-> i, embedding |-> <<"1", "2">>]
BadRow(i) == [pk |-> i, id |-> i, embedding |-> <<"1", "x">>]

PlainRows == {PlainRow(i) : i \in Ids}
OddRows == {NoIdRow(i) : i \in Ids} \cup {BadRow(i) : i \in Ids}
Rows == PlainRows \cup OddRows

SeqsUpTo(S, n) == UNION {[1..k -> S] : k \in 0..n}

CountIn(s, S) == Cardinality({k \in 1..Len(s) : s[k] \in S})

Snapshots == {s \in SeqsUpTo(Rows, MaxRows) : CountIn(s, OddRows) <= MaxOdd}

\* r.get(key): the value, or None when the key is absent.
Get(r, key) == IF key \in DOMAIN r THEN r[key] ELSE None

HasId(r) == "id" \in DOMAIN r /\ r["id"] # None

Min(a, b) == IF a < b THEN a ELSE b

\* ------------------------------------------------------- pure functions
\* Mutant: the end of the range is taken inclusive.
MilvusFilter_InclusiveEnd(r, s, e) ==
    IF e = None THEN r.pk >= s ELSE r.pk >= s /\ r.pk <= e

\* Mutant: the start of the range is taken exclusive.
MilvusFilter_ExclusiveStart(r, s, e) ==
    IF e = None THEN r.pk > s ELSE r.pk > s /\ r.pk < e

\* _milvus_filter, as the store evaluates the expression it renders.
MilvusFilter(r, s, e) ==
    IF e = None THEN r.pk >= s ELSE r.pk >= s /\ r.pk < e

Matching(rows, s, e) == SelectSeq(rows, LAMBDA r : MilvusFilter(r, s, e))

\* Mutant: the offset is applied one row too far.
FetchMilvusPage_OffByOne(rows, s, e, limit, off) ==
    LET m == Matching(rows, s, e)
    IN  SubSeq(m, off + 2, Min(off + 1 + limit, Len(m)))

\* _fetch_milvus_page: client.query(filter, limit, offset) on the snapshot.
FetchMilvusPage(rows, s, e, limit, off) ==
    LET m == Matching(rows, s, e)
    IN  SubSeq(m, off + 1, Min(off + limit, Len(m)))

\* float(x) of Python: defined on numerals, raises on anything else.
CanFloat(x) == x \in {"1", "2"}
Float(x) == CASE x = "1" -> 1 [] x = "2" -> 2

\* _coerce_embedding(r.get("embedding")): raises iff some element is not numeric.
CoerceRaises(r) ==
    "embedding" \in DOMAIN r
        /\ \E k \in 1..Len(r.embedding) : ~CanFloat(r.embedding[k])
CoerceEmbedding(r) ==
    IF "embedding" \notin DOMAIN r THEN <<>>
    ELSE [k \in 1..Len(r.embedding) |-> Float(r.embedding[k])]

\* Mutant: the id of every row is collected, None included.
PageIds_All(p) == [k \in 1..Len(p) |-> Get(p[k], "id")]

\* page_ids = [int(r["id"]) for r in page if "id" in r and r["id"] is not None]
PageIds(p) ==
    LET withId == SelectSeq(p, HasId)
    IN  [k \in 1..Len(withId) |-> withId[k]["id"]]

Range(s) == {s[k] : k \in 1..Len(s)}

\* Mutant: the IN list is built from the first id only.
ExistingIdsInTidb_FirstOnly(rows, ids) ==
    IF ids = <<>> THEN {} ELSE {i \in rows : i = ids[1]}

\* _existing_ids_in_tidb: the ids of `ids` that the table holds.
ExistingIdsInTidb(rows, ids) ==
    IF ids = <<>> THEN {} ELSE {i \in rows : i \in Range(ids)}

\* Mutant: the query is issued whatever the list holds.
ProbeQueries_Always(ids) == TRUE

\* Whether _existing_ids_in_tidb issues table.query.
ProbeQueries(ids) == ids # <<>>

\* The for loop over the page (lines 159-178), row by row.  The result is
\* [raised, skipped, to_insert]: `raised` when a coercion aborted the loop.
RECURSIVE StageFrom(_, _, _, _, _)
StageFrom(p, k, ex, sk, acc) ==
    IF k > Len(p) THEN [raised |-> FALSE, skipped |-> sk, to_insert |-> acc]
    ELSE LET r == p[k]
             rid == Get(r, "id")
         IN  IF rid = None THEN StageFrom(p, k + 1, ex, sk, acc)
             ELSE IF rid \in ex THEN StageFrom(p, k + 1, ex, sk + 1, acc)
             ELSE IF CoerceRaises(r)
                  THEN [raised |-> TRUE, skipped |-> sk, to_insert |-> acc]
             ELSE StageFrom(p, k + 1, ex, sk,
                     Append(acc, [id |-> rid, embedding |-> CoerceEmbedding(r)]))

\* Mutant: a row without an id is counted as skipped.
RECURSIVE StageFrom_CountNoId(_, _, _, _, _)
StageFrom_CountNoId(p, k, ex, sk, acc) ==
    IF k > Len(p) THEN [raised |-> FALSE, skipped |-> sk, to_insert |-> acc]
    ELSE LET r == p[k]
             rid == Get(r, "id")
         IN  IF rid = None THEN StageFrom_CountNoId(p, k + 1, ex, sk + 1, acc)
             ELSE IF rid \in ex THEN StageFrom_CountNoId(p, k + 1, ex, sk + 1, acc)
             ELSE IF CoerceRaises(r)
                  THEN [raised |-> TRUE, skipped |-> sk, to_insert |-> acc]
             ELSE StageFrom_CountNoId(p, k + 1, ex, sk,
                     Append(acc, [id |-> rid, embedding |-> CoerceEmbedding(r)]))

Stage_CountNoId(p, ex, sk) == StageFrom_CountNoId(p, 1, ex, sk, <<>>)

\* Mutant: a row whose embedding cannot be coerced is left out of the batch
\* and the loop goes on.
RECURSIVE StageFrom_SkipBad(_, _, _, _, _)
StageFrom_SkipBad(p, k, ex, sk, acc) ==
    IF k > Len(p) THEN [raised |-> FALSE, skipped |-> sk, to_insert |-> acc]
    ELSE LET r == p[k]
             rid == Get(r, "id")
         IN  IF rid = None THEN StageFrom_SkipBad(p, k + 1, ex, sk, acc)
             ELSE IF rid \in ex THEN StageFrom_SkipBad(p, k + 1, ex, sk + 1, acc)
             ELSE IF CoerceRaises(r) THEN StageFrom_SkipBad(p, k + 1, ex, sk, acc)
             ELSE StageFrom_SkipBad(p, k + 1, ex, sk,
                     Append(acc, [id |-> rid, embedding |-> CoerceEmbedding(r)]))

Stage_SkipBad(p, ex, sk) == StageFrom_SkipBad(p, 1, ex, sk, <<>>)

Stage(p, ex, sk) == StageFrom(p, 1, ex, sk, <<>>)

BatchIds(batch) == [k \in 1..Len(batch) |-> batch[k].id]

NoDup(s) == \A j, k \in 1..Len(s) : s[j] = s[k] => j = k

\* table.bulk_insert(batch) on a table whose primary key is id: one
\* statement, rejected as a whole on a duplicate key.
BulkInsertAccepts(rows, batch) ==
    NoDup(BatchIds(batch)) /\ Range(BatchIds(batch)) \cap rows = {}

\* ------------------------------------------------------------------ Init
\* The inputs: any snapshot, destination, range and page size.
Envs == {"ok", "no_milvus_env", "no_tidb_env"}

\* With a connection setting missing the source is never reached: short
\* snapshots stand for all of them.
Inputs ==
    /\ env \in Envs
    /\ milvus \in {[has_collection |-> TRUE, rows |-> s] : s \in Snapshots}
                    \cup {[has_collection |-> FALSE, rows |-> <<>>]}
    /\ env # "ok" => Len(milvus.rows) <= 1
    /\ tidb \in {[has_table |-> TRUE, rows |-> d] : d \in SUBSET Ids}
                    \cup {[has_table |-> FALSE, rows |-> {}]}
    /\ start \in Ids
    /\ end \in Ends
    /\ page_size \in PageSizes

\* No invocation has started.
Idle ==
    /\ dry_run = FALSE
    /\ pc = "idle"
    /\ offset = 0 /\ scanned = 0 /\ skipped = 0 /\ inserted = 0
    /\ page = <<>> /\ page_ids = <<>> /\ existing = {} /\ to_insert = <<>>
    /\ calls = <<>>
    /\ tidb0 = tidb
    /\ run = 0
    /\ history = <<>>

\* One invocation on any inputs.
Init == Inputs /\ Idle /\ invocations = 1 /\ faults = 0

\* MaxRuns invocations one after the other, with the connection settings in
\* place, on an existing collection and table and an accepted range.
InitRerun ==
    /\ Inputs /\ Idle /\ invocations = MaxRuns /\ faults = 0
    /\ env = "ok" /\ milvus.has_collection /\ tidb.has_table
    /\ start < MaxId /\ end \in {None, MaxId}

\* ------------------------------------------------------------- actions
Finished == {"done", "usage_error", "config_error", "data_error", "store_error"}

\* A store call that returned `out`, and one that raised.
Call(op, arg, out) == [op |-> op, arg |-> arg, out |-> out, raised |-> FALSE]
Raise(op, arg) == [op |-> op, arg |-> arg, out |-> None, raised |-> TRUE]

\* Whether the store call about to be issued may fail on a transient error.
FaultChoices == IF faults > 0 THEN BOOLEAN ELSE {FALSE}

\* A store call of the loop raises: the exception leaves the try block
\* (lines 138-190) and migrate_range, the locals staying what they were.
StoreFault(op, arg) ==
    /\ pc' = "store_error"
    /\ calls' = Append(calls, Raise(op, arg))
    /\ faults' = faults - 1

\* What is kept of an invocation that ended: its flag, how it ended, the
\* counters it held (the tuple it returned when it ended "done") and the
\* destination rows before and after it.
Summary ==
    [dry_run |-> dry_run, outcome |-> pc, scanned |-> scanned,
     skipped |-> skipped, inserted |-> inserted, tidb0 |-> tidb0.rows,
     rows |-> tidb.rows, faults |-> faults]

\* Mutant: the comparison of the validation is the wrong way round.
RangeRejected_Inverted(s, e) == e # None /\ e > s

\* main's validation (line 212): the condition under which it raises.
RangeRejected(s, e) == e # None /\ e < s

\* main (lines 203-223): validate the range, then enter migrate_range.
Main(d) ==
    /\ pc \in {"idle"} \cup Finished
    /\ run < invocations
    /\ run' = run + 1
    /\ history' = IF pc = "idle" THEN history ELSE Append(history, Summary)
    /\ dry_run' = d
    /\ offset' = 0 /\ scanned' = 0 /\ skipped' = 0 /\ inserted' = 0
    /\ page' = <<>> /\ page_ids' = <<>> /\ existing' = {} /\ to_insert' = <<>>
    /\ calls' = <<>>
    /\ tidb0' = tidb
    /\ pc' = IF RangeRejected(start, end) THEN "usage_error" ELSE "setup"
    /\ UNCHANGED <<args, tidb, faults>>

\* The two clients of lines 111-112; connect is given ensure_db=True.
ClientCalls == <<Call("MilvusClient", None, None), Call("TiDBClient.connect", None, None)>>

\* The calls of lines 111-119 that precede the resolution of the table.
SourceSetupCalls ==
    ClientCalls \o
    <<Call("has_collection", None, TRUE), Call("load_collection", None, None),
      Call("describe_collection", None, None)>>

\* Mutant: the destination table is resolved before the collection is
\* looked for.
Setup_TableFirst ==
    /\ pc = "setup"
    /\ IF env = "no_milvus_env"
       THEN /\ pc' = "config_error"
            /\ calls' = <<>>
            /\ UNCHANGED tidb
       ELSE IF env = "no_tidb_env"
       THEN /\ pc' = "config_error"
            /\ calls' = <<Call("MilvusClient", None, None)>>
            /\ UNCHANGED tidb
       ELSE /\ tidb' = [tidb EXCEPT !.has_table = TRUE]
            /\ pc' = IF milvus.has_collection THEN "fetch" ELSE "config_error"
            /\ calls' = ClientCalls \o
                  <<Call("has_table", None, tidb.has_table),
                    Call(IF tidb.has_table THEN "open_table" ELSE "create_table",
                         None, None),
                    Call("has_collection", None, milvus.has_collection)>>
                  \o (IF milvus.has_collection
                      THEN <<Call("load_collection", None, None),
                             Call("describe_collection", None, None)>>
                      ELSE <<>>)
    /\ UNCHANGED <<args, faults, dry_run, locals, tidb0, run, history>>

\* migrate_range up to the loop (lines 111-135): each client needs its
\* connection settings (lines 21-22, 33-36) and the collection must exist;
\* the destination table is created when absent and opened otherwise.
\* open_table answers from the mapped models, and line 123 has just mapped
\* this one, so it returns a handle: lines 129-130 are not reached.
Setup ==
    /\ pc = "setup"
    /\ IF env = "no_milvus_env"
       THEN /\ pc' = "config_error"
            /\ calls' = <<>>
            /\ UNCHANGED tidb
       ELSE IF env = "no_tidb_env"
       THEN /\ pc' = "config_error"
            /\ calls' = <<Call("MilvusClient", None, None)>>
            /\ UNCHANGED tidb
       ELSE IF ~milvus.has_collection
       THEN /\ pc' = "config_error"
            /\ calls' = ClientCalls \o <<Call("has_collection", None, FALSE)>>
            /\ UNCHANGED tidb
       ELSE /\ pc' = "fetch"
            /\ IF ~tidb.has_table
               THEN /\ tidb' = [tidb EXCEPT !.has_table = TRUE]
                    /\ calls' = SourceSetupCalls \o
                          <<Call("has_table", None, FALSE),
                            Call("create_table", None, None)>>
               ELSE /\ UNCHANGED tidb
                    /\ calls' = SourceSetupCalls \o
                          <<Call("has_table", None, TRUE),
                            Call("open_table", None, None)>>
    /\ UNCHANGED <<args, faults, dry_run, locals, tidb0, run, history>>

\* Mutant: the counters are advanced by the limit, before the page is
\* tested for emptiness.
FetchPage_CountBeforeTest ==
    /\ pc = "fetch"
    /\ LET p == FetchMilvusPage(milvus.rows, start, end, page_size, offset)
       IN  /\ calls' = Append(calls, Call("query", offset, p))
           /\ page' = p
           /\ offset' = offset + Len(p)
           /\ scanned' = scanned + page_size
           /\ pc' = IF p = <<>> THEN "done" ELSE "probe"
    /\ UNCHANGED <<args, tidb, faults, dry_run, skipped, inserted, page_ids,
                   existing, to_insert, tidb0, run, history>>

\* Mutant: the cursor advances by the page size, not by the page's length.
FetchPage_FixedStep ==
    /\ pc = "fetch"
    /\ LET p == FetchMilvusPage(milvus.rows, start, end, page_size, offset)
       IN  /\ calls' = Append(calls, Call("query", offset, p))
           /\ page' = p
           /\ IF p = <<>>
              THEN /\ pc' = "done"
                   /\ UNCHANGED <<offset, scanned>>
              ELSE /\ pc' = "probe"
                   /\ offset' = offset + page_size
                   /\ scanned' = scanned + Len(p)
    /\ UNCHANGED <<args, tidb, faults, dry_run, skipped, inserted, page_ids,
                   existing, to_insert, tidb0, run, history>>

\* Mutant: a page shorter than the limit ends the loop at once.
FetchPage_StopOnShortPage ==
    /\ pc = "fetch"
    /\ LET p == FetchMilvusPage(milvus.rows, start, end, page_size, offset)
       IN  /\ calls' = Append(calls, Call("query", offset, p))
           /\ page' = p
           /\ IF Len(p) < page_size
              THEN /\ pc' = "done"
                   /\ UNCHANGED <<offset, scanned>>
              ELSE /\ pc' = "probe"
                   /\ offset' = offset + Len(p)
                   /\ scanned' = scanned + Len(p)
    /\ UNCHANGED <<args, tidb, faults, dry_run, skipped, inserted, page_ids,
                   existing, to_insert, tidb0, run, history>>

\* Lines 140-153: fetch the page at the cursor; an empty page ends the loop
\* and the function returns its counters (line 192).
FetchPage ==
    /\ pc = "fetch"
    /\ \E raises \in FaultChoices :
         IF raises
         THEN /\ StoreFault("query", offset)
              /\ UNCHANGED <<page, offset, scanned>>
         ELSE LET p == FetchMilvusPage(milvus.rows, start, end, page_size, offset)
              IN  /\ calls' = Append(calls, Call("query", offset, p))
                  /\ page' = p
                  /\ IF p = <<>>
                     THEN /\ pc' = "done"
                          /\ UNCHANGED <<offset, scanned>>
                     ELSE /\ pc' = "probe"
                          /\ offset' = offset + Len(p)
                          /\ scanned' = scanned + Len(p)
                  /\ UNCHANGED faults
    /\ UNCHANGED <<args, tidb, dry_run, skipped, inserted, page_ids,
                   existing, to_insert, tidb0, run, history>>

\* Mutant: the probe answers from the table as it was when the run started.
ProbePage_Stale ==
    /\ pc = "probe"
    /\ page_ids' = PageIds(page)
    /\ existing' = ExistingIdsInTidb(tidb0.rows, page_ids')
    /\ calls' = IF ProbeQueries(page_ids')
                THEN Append(calls, Call("table.query", page_ids', existing'))
                ELSE calls
    /\ pc' = "stage"
    /\ UNCHANGED <<args, tidb, faults, dry_run, offset, scanned, skipped, inserted,
                   page, to_insert, tidb0, run, history>>

\* Lines 155-156: collect the page's ids and probe the destination.
ProbePage ==
    /\ pc = "probe"
    /\ page_ids' = PageIds(page)
    /\ \E raises \in (IF ProbeQueries(page_ids') THEN FaultChoices ELSE {FALSE}) :
         IF raises
         THEN /\ StoreFault("table.query", page_ids')
              /\ UNCHANGED existing
         ELSE /\ existing' = ExistingIdsInTidb(tidb.rows, page_ids')
              /\ calls' = IF ProbeQueries(page_ids')
                          THEN Append(calls, Call("table.query", page_ids', existing'))
                          ELSE calls
              /\ pc' = "stage"
              /\ UNCHANGED faults
    /\ UNCHANGED <<args, tidb, dry_run, offset, scanned, skipped, inserted,
                   page, to_insert, tidb0, run, history>>

\* Mutant: `skipped` is counted per page, from zero.
StagePage_ResetSkipped ==
    /\ pc = "stage"
    /\ LET r == Stage(page, existing, 0)
       IN  /\ skipped' = r.skipped
           /\ to_insert' = r.to_insert
           /\ pc' = IF r.raised THEN "data_error" ELSE "insert"
    /\ UNCHANGED <<args, tidb, faults, dry_run, offset, scanned, inserted, page,
                   page_ids, existing, calls, tidb0, run, history>>

\* Lines 158-178: count the rows already there, stage the others; a
\* coercion that raises ends the invocation.
StagePage ==
    /\ pc = "stage"
    /\ LET r == Stage(page, existing, skipped)
       IN  /\ skipped' = r.skipped
           /\ to_insert' = r.to_insert
           /\ pc' = IF r.raised THEN "data_error" ELSE "insert"
    /\ UNCHANGED <<args, tidb, faults, dry_run, offset, scanned, inserted, page,
                   page_ids, existing, calls, tidb0, run, history>>

\* Lines 180-181: nothing to insert, next page.
NoInsert ==
    /\ pc = "insert"
    /\ to_insert = <<>>
    /\ pc' = "fetch"
    /\ UNCHANGED <<args, tidb, faults, dry_run, locals, calls, tidb0, run, history>>

\* Lines 183-185: dry run, count the batch and drop it.
SimulateInsert ==
    /\ pc = "insert"
    /\ to_insert # <<>>
    /\ dry_run
    /\ inserted' = inserted + Len(to_insert)
    /\ pc' = "fetch"
    /\ UNCHANGED <<args, tidb, faults, dry_run, offset, scanned, skipped, page,
                   page_ids, existing, to_insert, calls, tidb0, run, history>>

\* Mutant: the dry_run test before the bulk insert is missing.
BulkInsert_NoDryRunTest ==
    /\ pc = "insert"
    /\ to_insert # <<>>
    /\ IF BulkInsertAccepts(tidb.rows, to_insert)
       THEN /\ tidb' = [tidb EXCEPT !.rows = @ \cup Range(BatchIds(to_insert))]
            /\ calls' = Append(calls, Call("bulk_insert", BatchIds(to_insert), TRUE))
            /\ inserted' = inserted + Len(to_insert)
            /\ pc' = "fetch"
       ELSE /\ calls' = Append(calls, Raise("bulk_insert", BatchIds(to_insert)))
            /\ pc' = "store_error"
            /\ UNCHANGED <<tidb, inserted>>
    /\ UNCHANGED <<args, faults, dry_run, offset, scanned, skipped, page, page_ids,
                   existing, to_insert, tidb0, run, history>>

\* Mutant: the bulk insert is not atomic, a failing one leaves its first
\* row in the table.
BulkInsert_PartialOnFault ==
    /\ pc = "insert"
    /\ to_insert # <<>>
    /\ ~dry_run
    /\ \E raises \in FaultChoices :
         IF raises
         THEN /\ StoreFault("bulk_insert", BatchIds(to_insert))
              /\ tidb' = [tidb EXCEPT !.rows = @ \cup {to_insert[1].id}]
              /\ UNCHANGED inserted
         ELSE /\ IF BulkInsertAccepts(tidb.rows, to_insert)
                 THEN /\ tidb' = [tidb EXCEPT !.rows = @ \cup Range(BatchIds(to_insert))]
                      /\ calls' = Append(calls, Call("bulk_insert", BatchIds(to_insert), TRUE))
                      /\ inserted' = inserted + Len(to_insert)
                      /\ pc' = "fetch"
                 ELSE /\ calls' = Append(calls, Raise("bulk_insert", BatchIds(to_insert)))
                      /\ pc' = "store_error"
                      /\ UNCHANGED <<tidb, inserted>>
              /\ UNCHANGED faults
    /\ UNCHANGED <<args, dry_run, offset, scanned, skipped, page, page_ids,
                   existing, to_insert, tidb0, run, history>>

\* Mutant: the batch is inserted row by row, one statement per row.
BulkInsert_RowByRow ==
    /\ pc = "insert"
    /\ to_insert # <<>>
    /\ ~dry_run
    /\ IF to_insert[1].id \notin tidb.rows
       THEN /\ tidb' = [tidb EXCEPT !.rows = @ \cup {to_insert[1].id}]
            /\ calls' = Append(calls, Call("bulk_insert", <<to_insert[1].id>>, TRUE))
            /\ inserted' = inserted + 1
            /\ to_insert' = Tail(to_insert)
            /\ pc' = "insert"
       ELSE /\ calls' = Append(calls, Raise("bulk_insert", <<to_insert[1].id>>))
            /\ pc' = "store_error"
            /\ UNCHANGED <<tidb, inserted, to_insert>>
    /\ UNCHANGED <<args, faults, dry_run, offset, scanned, skipped, page, page_ids,
                   existing, tidb0, run, history>>

\* Lines 187-188: one bulk insert of the whole batch, then count it; an
\* insert that is rejected, or that fails, raises and ends the invocation
\* with the table as it was (the statement is atomic).
BulkInsert ==
    /\ pc = "insert"
    /\ to_insert # <<>>
    /\ ~dry_run
    /\ \E raises \in FaultChoices :
         IF raises
         THEN /\ StoreFault("bulk_insert", BatchIds(to_insert))
              /\ UNCHANGED <<tidb, inserted>>
         ELSE /\ IF BulkInsertAccepts(tidb.rows, to_insert)
                 THEN /\ tidb' = [tidb EXCEPT !.rows = @ \cup Range(BatchIds(to_insert))]
                      /\ calls' = Append(calls, Call("bulk_insert", BatchIds(to_insert), TRUE))
                      /\ inserted' = inserted + Len(to_insert)
                      /\ pc' = "fetch"
                 ELSE /\ calls' = Append(calls, Raise("bulk_insert", BatchIds(to_insert)))
                      /\ pc' = "store_error"
                      /\ UNCHANGED <<tidb, inserted>>
              /\ UNCHANGED faults
    /\ UNCHANGED <<args, dry_run, offset, scanned, skipped, page, page_ids,
                   existing, to_insert, tidb0, run, history>>

Next ==
    \/ \E d \in BOOLEAN : Main(d)
    \/ Setup
    \/ FetchPage
    \/ ProbePage
    \/ StagePage
    \/ NoInsert
    \/ SimulateInsert
    \/ BulkInsert

\* One invocation, any inputs.
Spec == Init /\ [][Next]_vars

\* Successive invocations on the same snapshot, range and page size.
SpecRerun == InitRerun /\ [][Next]_vars

\* Successive invocations, MaxFaults store calls failing on the way.
InitCrash ==
    /\ Inputs /\ Idle /\ invocations = MaxRuns /\ faults = MaxFaults
    /\ env = "ok" /\ milvus.has_collection /\ tidb.has_table
    /\ start = 0 /\ end = None

SpecCrash == InitCrash /\ [][Next]_vars

\* One invocation, any inputs, the single thread of control never stopping
\* halfway: every statement is followed by the next, every store call returns
\* or raises.
SpecLive == Init /\ [][Next]_vars /\ WF_vars(Next)


\* ------------------------------------------------- what a run has done
RECURSIVE Flatten(_)
Flatten(ss) == IF ss = <<>> THEN <<>> ELSE Head(ss) \o Flatten(Tail(ss))

\* The calls of one operation: all that were issued, and those that returned.
CallsOf(op) == SelectSeq(calls, LAMBDA c : c.op = op)
Returned(op) == SelectSeq(calls, LAMBDA c : c.op = op /\ ~c.raised)

FetchCalls == Returned("query")
ProbeCalls == CallsOf("table.query")
InsertCalls == CallsOf("bulk_insert")
CreateCalls == CallsOf("create_table")

\* Every row the current invocation has fetched, in order.
FetchedRows == Flatten([k \in 1..Len(FetchCalls) |-> FetchCalls[k].out])

NoIdCount(s) == Cardinality({k \in 1..Len(s) : ~HasId(s[k])})

\* The invocation before the current one.
Prev == history[Len(history)]

InRun == pc \notin {"idle", "usage_error"}

\* ---------------------------------------------------------------- C1
\* C1 as stated: when migrate_range has run to completion with
\* dry_run=false and is run again with dry_run=false, the second run
\* returns inserted = 0 and skipped = scanned, and issues no bulk insert.
C1_IdempotenceAsStated ==
    (run >= 2 /\ pc = "done" /\ ~dry_run /\ ~Prev.dry_run /\ Prev.outcome = "done")
        => (inserted = 0 /\ skipped = scanned /\ InsertCalls = <<>>)

\* C1 amended: the second run stages nothing, issues no bulk insert, does
\* not fail, keeps inserted = 0, and returns skipped = scanned minus the
\* number of fetched rows that carry no id.
C1_Idempotence ==
    (run >= 2 /\ ~dry_run /\ ~Prev.dry_run /\ Prev.outcome = "done")
        => /\ inserted = 0
           /\ to_insert = <<>>
           /\ InsertCalls = <<>>
           /\ pc \notin {"data_error", "store_error", "config_error", "usage_error"}
           /\ tidb.rows = tidb0.rows
           /\ (pc = "done" => skipped = scanned - NoIdCount(FetchedRows))

C1_Witness ==
    /\ run = 2 /\ pc = "done" /\ ~dry_run
    /\ ~Prev.dry_run /\ Prev.outcome = "done" /\ Prev.inserted >= 2
    /\ skipped >= 2 /\ scanned > skipped

\* ---------------------------------------------------------------- C2
\* C2: scanned >= skipped + inserted throughout every run; at each page
\* boundary and at completion the difference is exactly the number of
\* fetched rows without an id, so the counters add up when every fetched
\* row carries one.
C2_CounterConservation ==
    /\ scanned >= skipped + inserted
    /\ pc \in {"fetch", "done"} =>
           scanned - (skipped + inserted) = NoIdCount(FetchedRows)

C2_Witness ==
    /\ pc = "done" /\ dry_run
    /\ NoIdCount(FetchedRows) = 1
    /\ skipped = 1 /\ inserted = 1 /\ scanned = 3

\* ---------------------------------------------------------------- C3
\* C3: in a dry run no bulk insert is issued and the destination rows stay
\* what they were when the run started.
C3_DryRunNoMutation ==
    (InRun /\ dry_run) => (InsertCalls = <<>> /\ tidb.rows = tidb0.rows)

C3_Witness ==
    /\ pc = "done" /\ dry_run /\ inserted >= 2 /\ skipped >= 1
    /\ tidb.rows = tidb0.rows


\* ---------------------------------------------------------------- C4
\* C4 as stated: a dry run that completed and a real run started from the
\* same destination content return the same (scanned, skipped, inserted).
C4_DryRunSameCounters ==
    (run >= 2 /\ pc \in Finished /\ ~dry_run
        /\ Prev.dry_run /\ Prev.outcome = "done" /\ Prev.tidb0 = tidb0.rows)
        => /\ pc = "done"
           /\ <<scanned, skipped, inserted>>
                 = <<Prev.scanned, Prev.skipped, Prev.inserted>>

\* ---------------------------------------------------------------- C5
InRangeRows == Matching(milvus.rows, start, end)

FetchedInRange ==
    \A k \in 1..Len(FetchedRows) :
        /\ FetchedRows[k].pk >= start
        /\ end # None => FetchedRows[k].pk < end

EndNeverTouched ==
    end # None =>
        /\ \A k \in 1..Len(FetchedRows) : FetchedRows[k].pk # end
        /\ end \notin Range(page_ids)
        /\ end \notin Range(BatchIds(to_insert))
        /\ end \notin tidb.rows \ tidb0.rows

StartRowsFetched ==
    \A k \in 1..Len(milvus.rows) :
        milvus.rows[k].pk = start => milvus.rows[k] \in Range(FetchedRows)

\* C5 as stated: every fetched row has start <= id, and id < end when end
\* is given; a row with id = end is never fetched, probed or inserted; a
\* row with id = start has been fetched when the run completes.
C5_RangeBoundaryAsStated ==
    /\ FetchedInRange
    /\ EndNeverTouched
    /\ pc = "done" => StartRowsFetched

\* C5 amended: the same, a row with id = start being fetched by a run that
\* completes when end is absent or greater than start.
C5_RangeBoundary ==
    /\ FetchedInRange
    /\ EndNeverTouched
    /\ (pc = "done" /\ (end = None \/ end > start)) => StartRowsFetched

C5_Witness ==
    /\ pc = "done" /\ start = 1 /\ end = 2
    /\ {milvus.rows[k].pk : k \in 1..Len(milvus.rows)} = {0, 1, 2}
    /\ scanned = 1
    /\ FetchedRows = <<PlainRow(1)>>

\* ---------------------------------------------------------------- C6
UniqueIds(rows) ==
    /\ \A k \in 1..Len(rows) : HasId(rows[k])
    /\ \A j, k \in 1..Len(rows) : rows[j]["id"] = rows[k]["id"] => j = k

CountRows(rows, S) == Cardinality({k \in 1..Len(rows) : rows[k]["id"] \in S})

\* C6: for a source whose rows all carry unique ids, a completed run
\* returns scanned = the number of source rows in [start, end), skipped =
\* the number of them whose id the destination held when the run started,
\* inserted = the number of the others.
C6_CountersPartitionRange ==
    (pc = "done" /\ UniqueIds(milvus.rows)) =>
        /\ scanned = Len(InRangeRows)
        /\ skipped = CountRows(InRangeRows, tidb0.rows)
        /\ inserted = CountRows(InRangeRows, Ids \ tidb0.rows)

C6_Witness ==
    /\ pc = "done" /\ UniqueIds(milvus.rows) /\ ~dry_run
    /\ page_size = 2 /\ Len(InRangeRows) = 3
    /\ scanned = 3 /\ skipped = 2 /\ inserted = 1


\* ---------------------------------------------------------------- C7
FirstFetchEmpty == FetchCalls # <<>> /\ FetchCalls[1].out = <<>>

\* C7 as stated: when the first fetch returns an empty page the driver
\* returns (0, 0, 0) and has not touched the destination: no table
\* creation, no existence query, no bulk insert.
C7_EmptyRangeAsStated ==
    FirstFetchEmpty =>
        /\ pc = "done"
        /\ <<scanned, skipped, inserted>> = <<0, 0, 0>>
        /\ ProbeCalls = <<>> /\ InsertCalls = <<>> /\ CreateCalls = <<>>
        /\ tidb = tidb0

\* C7 amended: when the first fetch returns an empty page the driver
\* returns (0, 0, 0) having issued no existence query and no bulk insert and
\* left the destination rows as they were; the table itself has been
\* created before the fetch when, and only when, it did not exist.
C7_EmptyRange ==
    FirstFetchEmpty =>
        /\ pc = "done"
        /\ Len(FetchCalls) = 1
        /\ <<scanned, skipped, inserted>> = <<0, 0, 0>>
        /\ ProbeCalls = <<>> /\ InsertCalls = <<>>
        /\ tidb.rows = tidb0.rows
        /\ tidb.has_table
        /\ Len(CreateCalls) = (IF tidb0.has_table THEN 0 ELSE 1)

C7_Witness ==
    /\ FirstFetchEmpty /\ pc = "done"
    /\ milvus.rows # <<>>
    /\ ~tidb0.has_table /\ CreateCalls # <<>>

\* ---------------------------------------------------------------- C8
CeilDiv(n, p) == (n + p - 1) \div p

RECURSIVE SumSizes(_, _)
SumSizes(f, k) == IF k = 0 THEN 0 ELSE Len(f[k].out) + SumSizes(f, k - 1)

\* The k-th fetch is issued at the offset that is the number of rows the
\* earlier fetches returned; the pages have sizes P, ..., P and the
\* remainder, followed by empty pages.
FetchSequence ==
    LET n == Len(InRangeRows)
        full == CeilDiv(n, page_size)
    IN  \A k \in 1..Len(FetchCalls) :
            /\ FetchCalls[k].arg = SumSizes(FetchCalls, k - 1)
            /\ Len(FetchCalls[k].out) =
                   (IF k < full THEN page_size
                    ELSE IF k = full THEN n - (full - 1) * page_size
                    ELSE 0)

\* C8 as stated: a completed run has issued exactly ceil(N/P) fetch calls,
\* at those offsets and of those sizes.
C8_FetchCallsAsStated ==
    /\ FetchSequence
    /\ pc = "done" => Len(FetchCalls) = CeilDiv(Len(InRangeRows), page_size)

\* C8 amended: a completed run has issued ceil(N/P) fetch calls that
\* returned rows, at those offsets and of those sizes, and then exactly one
\* more, at offset N, that returned the empty page: ceil(N/P) + 1 in all.
C8_FetchCalls ==
    /\ FetchSequence
    /\ pc = "done" =>
          /\ Len(FetchCalls) = CeilDiv(Len(InRangeRows), page_size) + 1
          /\ FetchCalls[Len(FetchCalls)].arg = Len(InRangeRows)
          /\ FetchCalls[Len(FetchCalls)].out = <<>>

C8_Witness ==
    /\ pc = "done" /\ page_size = 2 /\ Len(InRangeRows) = 3
    /\ Len(FetchCalls) = 3
    /\ Len(FetchCalls[1].out) = 2 /\ FetchCalls[1].arg = 0
    /\ Len(FetchCalls[2].out) = 1 /\ FetchCalls[2].arg = 2
    /\ Len(FetchCalls[3].out) = 0 /\ FetchCalls[3].arg = 3

\* ---------------------------------------------------------------- C9
StoreRaised == pc = "store_error"

\* C9 as stated, its last part: an invocation of migrate_range with its
\* connection settings, on an existing collection, in which no store call
\* raised ends at DONE.
C9_EndsAtDoneAsStated ==
    (pc \in Finished /\ InRun /\ env = "ok" /\ milvus.has_collection
        /\ ~StoreRaised)
        => pc = "done"

PageHasBadRow == \E k \in 1..Len(page) : HasId(page[k]) /\ CoerceRaises(page[k])

\* C9 amended: the driver reaches DONE exactly when a fetched page is
\* empty, whatever the number of iterations; and every invocation of
\* migrate_range eventually ends, at DONE with its counters, or with an
\* error: a connection setting or the collection is missing, a store call
\* raised, or a row being staged has a non-numeric embedding element.
C9_Termination ==
    /\ [][pc' = "done" => (pc = "fetch" /\ page' = <<>>)]_vars
    /\ [][pc = "fetch" => (pc' = "done" <=> page' = <<>>)]_vars
    /\ [](pc = "done" => calls[Len(calls)] = Call("query", offset, <<>>))
    /\ [](pc = "config_error" => (env # "ok" \/ ~milvus.has_collection))
    /\ [](pc = "data_error" => PageHasBadRow)
    /\ [](pc = "store_error" => calls[Len(calls)].raised)
    /\ (pc = "setup" ~> pc \in {"done", "config_error", "data_error", "store_error"})

C9_Witness ==
    /\ pc = "done" /\ page_size = 1 /\ Len(FetchCalls) = 4
    /\ scanned = 3

\* --------------------------------------------------------------- C10
\* C10: a range with end < start is rejected by main before migrate_range
\* is entered, no store call having been issued and the destination left as
\* it was; whenever migrate_range is entered with end given, end >= start.
C10_RangeValidation ==
    /\ RangeRejected(start, end) =>
          (pc \in {"idle", "usage_error"} /\ calls = <<>> /\ tidb = tidb0)
    /\ (InRun /\ end # None) => end >= start

C10_Witness ==
    /\ pc = "usage_error" /\ end # None /\ end < start
    /\ milvus.rows # <<>> /\ tidb.rows # {}
    /\ calls = <<>>


\* --------------------------------------------------------------- C11
Aborted == {"data_error", "store_error"}

\* The ids the bulk inserts that returned have written.
InsertedIds == UNION {Range(c.arg) : c \in Range(Returned("bulk_insert"))}

\* The ids of the source rows of [start, end) that carry one.
InRangeIds == Range(PageIds(InRangeRows))

\* The loop of migrate_range run without interruption from the cursor `off`
\* on a table holding `rows`: how it ends and what the table then holds.
RECURSIVE RunFrom(_, _)
RunFrom(off, rows) ==
    LET p == FetchMilvusPage(milvus.rows, start, end, page_size, off)
        r == Stage(p, ExistingIdsInTidb(rows, PageIds(p)), 0)
    IN  IF p = <<>> THEN [outcome |-> "done", rows |-> rows]
        ELSE IF r.raised THEN [outcome |-> "data_error", rows |-> rows]
        ELSE IF r.to_insert = <<>> THEN RunFrom(off + Len(p), rows)
        ELSE IF BulkInsertAccepts(rows, r.to_insert)
             THEN RunFrom(off + Len(p), rows \cup Range(BatchIds(r.to_insert)))
        ELSE [outcome |-> "store_error", rows |-> rows]

\* A real run that ended after a real run that was aborted, no store call
\* having failed in it.
RerunAfterAbort ==
    /\ run >= 2 /\ ~dry_run /\ ~Prev.dry_run
    /\ Prev.outcome \in Aborted
    /\ pc \in Finished /\ faults = Prev.faults

\* What an aborted real run leaves: the rows of the start and the batches of
\* the bulk inserts that returned, each id once.
AbortLeavesWholePages ==
    (pc \in Aborted /\ ~dry_run) =>
        /\ tidb.rows = tidb0.rows \cup InsertedIds
        /\ Cardinality(tidb.rows) = Cardinality(tidb0.rows) + inserted

\* C11 as stated: an aborted real run leaves the initial rows and the
\* batches of the completed bulk inserts, no id twice; and the re-run on the
\* same snapshot and range completes, the destination then holding what one
\* uninterrupted run produces.
C11_CrashRerunAsStated ==
    /\ AbortLeavesWholePages
    /\ RerunAfterAbort =>
           (pc = "done" /\ tidb.rows = Prev.tidb0 \cup InRangeIds)

\* C11 amended: an aborted real run leaves the initial rows and the batches
\* of the completed bulk inserts, no id twice; and the re-run ends as one
\* uninterrupted run from the initial destination ends, with the same
\* destination: completed, the destination holding the initial rows and the
\* ids of the range, or aborted again where the snapshot itself makes a
\* run abort.
C11_CrashRerun ==
    /\ AbortLeavesWholePages
    /\ RerunAfterAbort =>
           /\ pc = RunFrom(0, Prev.tidb0).outcome
           /\ tidb.rows = RunFrom(0, Prev.tidb0).rows
           /\ pc = "done" => tidb.rows = Prev.tidb0 \cup InRangeIds

C11_Witness ==
    /\ RerunAfterAbort /\ pc = "done"
    /\ Prev.outcome = "store_error" /\ Prev.faults < MaxFaults
    /\ Prev.inserted = 1 /\ inserted = 2
    /\ Cardinality(tidb.rows) = Cardinality(Prev.tidb0) + 3

\* --------------------------------------------------------------- C12
RECURSIVE SumArgs(_)
SumArgs(cs) == IF cs = <<>> THEN 0 ELSE Len(Head(cs).arg) + SumArgs(Tail(cs))

\* The rows of the page that the probe did not report, in page order.
NewIds == SelectSeq(page_ids, LAMBDA i : i \notin existing)

NonEmptyFetches == SelectSeq(FetchCalls, LAMBDA c : c.out # <<>>)

\* The step taken with a page's batch staged.
InsertStep ==
    pc = "insert" =>
        IF to_insert = <<>> \/ dry_run
        THEN calls' = calls /\ tidb' = tidb
        ELSE /\ Len(calls') = Len(calls) + 1
             /\ calls'[Len(calls')].op = "bulk_insert"
             /\ calls'[Len(calls')].arg = BatchIds(to_insert)
             /\ IF calls'[Len(calls')].raised
                THEN tidb' = tidb /\ inserted' = inserted /\ pc' = "store_error"
                ELSE /\ tidb' = [tidb EXCEPT !.rows = @ \cup Range(BatchIds(to_insert))]
                     /\ inserted' = inserted + Len(to_insert)
                     /\ pc' = "fetch"

\* C12: in a real run a page whose batch is not empty causes exactly one
\* bulk_insert call, carrying every new row of the page, and a page whose
\* batch is empty causes none; the destination changes only by a whole
\* batch, and `inserted` grows by the batch size only when the call has
\* returned.
C12_OneBulkInsertPerPage ==
    /\ [](pc = "insert" => BatchIds(to_insert) = NewIds)
    /\ [](Len(InsertCalls) <= Len(NonEmptyFetches))
    /\ [](~dry_run => /\ inserted = SumArgs(Returned("bulk_insert"))
                      /\ tidb.rows = tidb0.rows \cup InsertedIds)
    /\ [][InsertStep]_vars
    /\ [][tidb'.rows # tidb.rows => (pc = "insert" /\ ~dry_run)]_vars

C12_Witness ==
    /\ pc = "fetch" /\ ~dry_run /\ page_size = 2
    /\ Len(NonEmptyFetches) = 2
    /\ Len(InsertCalls) = 1 /\ ~InsertCalls[1].raised
    /\ Len(InsertCalls[1].arg) = 2 /\ inserted = 2
    /\ Len(page) = 1 /\ to_insert = <<>>

\* --------------------------------------------------------------- C13
\* The store calls of the loop, in the order they were issued.
LoopCalls == SelectSeq(calls, LAMBDA c : c.op \in {"query", "table.query", "bulk_insert"})

\* The ids written by the bulk inserts among the first n calls of the loop.
InsertedBefore(n) ==
    UNION {Range(LoopCalls[j].arg) :
               j \in {i \in 1..n : LoopCalls[i].op = "bulk_insert" /\ ~LoopCalls[i].raised}}

\* Each call of the loop follows the call the sequence fetch, probe, insert
\* puts before it: a probe follows the fetch of its page; an insert follows
\* the probe of its page and carries ids that probe did not report; a fetch
\* follows the end of the page before, which had no id to probe, or nothing
\* to insert, or whose insert has returned.
CallOrder ==
    \A i \in 1..Len(LoopCalls) :
        LET c == LoopCalls[i]
            b == LoopCalls[i - 1]
        IN  /\ i = 1 => c.op = "query"
            /\ i > 1 => ~b.raised
            /\ c.op = "table.query" =>
                   /\ i > 1 /\ b.op = "query" /\ c.arg = PageIds(b.out)
                   /\ ~c.raised =>
                          c.out = ExistingIdsInTidb(tidb0.rows \cup InsertedBefore(i - 1), c.arg)
            /\ c.op = "bulk_insert" =>
                   /\ i > 1 /\ b.op = "table.query" /\ ~dry_run
                   /\ Range(c.arg) = Range(b.arg) \ b.out
            /\ (c.op = "query" /\ i > 1) =>
                   CASE b.op = "query" -> b.out # <<>> /\ PageIds(b.out) = <<>>
                     [] b.op = "table.query" -> dry_run \/ Range(b.arg) \subseteq b.out
                     [] b.op = "bulk_insert" -> TRUE

PcOrder ==
    {<<"setup", "fetch">>, <<"setup", "config_error">>,
     <<"fetch", "probe">>, <<"fetch", "done">>, <<"fetch", "store_error">>,
     <<"probe", "stage">>, <<"probe", "store_error">>,
     <<"stage", "insert">>, <<"stage", "data_error">>,
     <<"insert", "fetch">>, <<"insert", "store_error">>}

\* C13: within a run the store calls come in the order fetch, probe, insert
\* of one page (the insert only for a real run with a batch), the next fetch
\* only when the page before is dealt with; a probe answers from the table
\* as the inserts of all earlier pages left it, and the table is not written
\* between a page's probe and its insert.
C13_PageSequencing ==
    /\ [][(pc \notin Finished \cup {"idle"}) => <<pc, pc'>> \in PcOrder]_vars
    /\ []CallOrder
    /\ [](pc \in {"stage", "insert"} =>
              existing = ExistingIdsInTidb(tidb.rows, page_ids))

C13_Witness ==
    /\ pc = "done" /\ ~dry_run /\ tidb0.rows = {}
    /\ [k \in 1..Len(LoopCalls) |-> LoopCalls[k].op]
           = <<"query", "table.query", "bulk_insert", "query", "table.query", "query">>
    /\ Len(LoopCalls[3].arg) = 2
    /\ LoopCalls[5].out # {}

\* --------------------------------------------------------------- C14
WithIdCount(s) == Len(s) - NoIdCount(s)

\* C14: a fetched row without an id counts in `scanned` and moves the
\* cursor by one like any row; it is not among the ids sent to the probe,
\* it is not staged, and it adds nothing to `skipped` or `inserted`.
C14_RowsWithoutId ==
    /\ offset = Len(FetchedRows) /\ scanned = Len(FetchedRows)
    /\ None \notin Range(page_ids)
    /\ \A k \in 1..Len(ProbeCalls) : None \notin Range(ProbeCalls[k].arg)
    /\ None \notin Range(BatchIds(to_insert))
    /\ pc \in {"stage", "insert"} => Len(page_ids) = WithIdCount(page)
    /\ pc = "insert" =>
           skipped + inserted + Len(to_insert) = WithIdCount(FetchedRows)
    /\ pc \in {"fetch", "done"} => skipped + inserted = WithIdCount(FetchedRows)

C14_Witness ==
    /\ pc = "insert" /\ page_size = 2 /\ Len(page) = 2
    /\ ~HasId(page[1]) /\ HasId(page[2])
    /\ scanned = 2 /\ offset = 2
    /\ page_ids = <<page[2]["id"]>>
    /\ Len(to_insert) = 1 /\ skipped = 0 /\ inserted = 0

\* --------------------------------------------------------------- C15
\* A row of the page that is to be inserted and whose embedding holds an
\* element float() rejects.
BadRowToInsert ==
    \E k \in 1..Len(page) :
        HasId(page[k]) /\ page[k]["id"] \notin existing /\ CoerceRaises(page[k])

\* C15: when a row to be inserted has a non-numeric embedding element the
\* run ends with the error while the page is being staged: no bulk insert is
\* issued for the page, the rows staged before the bad one are not written,
\* no later page is fetched, and what the earlier pages inserted remains.
C15_BadEmbeddingAborts ==
    /\ [][(pc = "stage" /\ BadRowToInsert) =>
              (pc' = "data_error" /\ tidb' = tidb /\ calls' = calls
                  /\ inserted' = inserted)]_vars
    /\ [][pc = "data_error" => (run' = run + 1 /\ tidb' = tidb)]_vars
    /\ [](pc = "data_error" =>
              /\ BadRowToInsert
              /\ calls[Len(calls)] = Call("table.query", page_ids, existing)
              /\ FetchCalls[Len(FetchCalls)].out = page
              /\ Range(BatchIds(to_insert)) \cap tidb.rows = {}
              /\ tidb.rows = tidb0.rows \cup InsertedIds
              /\ Cardinality(tidb.rows) =
                     Cardinality(tidb0.rows) + (IF dry_run THEN 0 ELSE inserted))

C15_Witness ==
    /\ pc = "data_error" /\ ~dry_run
    /\ Len(page) = 2 /\ Len(to_insert) = 1
    /\ to_insert[1].id = page[1]["id"] /\ CoerceRaises(page[2])
    /\ to_insert[1].id \notin tidb.rows

\* --------------------------------------------------------------- C16
ConfigMissing == env # "ok" \/ ~milvus.has_collection

TableCalls == SelectSeq(calls, LAMBDA c : c.op \in {"has_table", "create_table", "open_table"})

ProbeStep ==
    pc = "probe" =>
        IF PageIds(page) = <<>>
        THEN existing' = {} /\ calls' = calls /\ pc' = "stage"
        ELSE /\ Len(calls') = Len(calls) + 1
             /\ calls'[Len(calls')].op = "table.query"
             /\ calls'[Len(calls')].arg = PageIds(page)
             /\ ~calls'[Len(calls')].raised =>
                    /\ existing' = calls'[Len(calls')].out
                    /\ existing' \subseteq Range(PageIds(page))

PagesWithIds == SelectSeq(FetchCalls, LAMBDA c : PageIds(c.out) # <<>>)

\* C17: given no id the prober returns the empty set without querying the
\* destination; given ids it issues exactly one query for the page and
\* returns only ids that were among them.
C17_ProberOnEmptyInput ==
    /\ [][ProbeStep]_vars
    /\ [](\A k \in 1..Len(ProbeCalls) :
              /\ ProbeCalls[k].arg # <<>>
              /\ ~ProbeCalls[k].raised => ProbeCalls[k].out \subseteq Range(ProbeCalls[k].arg))
    /\ [](pc \in {"stage", "insert", "fetch", "done", "data_error"} =>
              Len(ProbeCalls) = Len(PagesWithIds))
    /\ [](pc \in {"stage", "insert"} => existing \subseteq Range(page_ids))

C17_Witness ==
    /\ pc = "stage" /\ page # <<>> /\ page_ids = <<>>
    /\ existing = {} /\ tidb.rows # {}
    /\ Len(NonEmptyFetches) = 2 /\ Len(ProbeCalls) = 1
    /\ ProbeCalls[1].out # {}

\* --------------------------------------------------------------- C18
Running == pc \notin Finished \cup {"idle"}

\* C18: throughout a run the counters and the cursor are non-negative and
\* never decrease; the cursor grows, by the length of the page, with every
\* page that is not empty, and is always equal to `scanned`.
C18_MonotonicCounters ==
    /\ [](offset >= 0 /\ scanned >= 0 /\ skipped >= 0 /\ inserted >= 0)
    /\ [](offset = scanned)
    /\ [][Running =>
              /\ offset' >= offset /\ scanned' >= scanned
              /\ skipped' >= skipped /\ inserted' >= inserted]_vars
    /\ [][(pc = "fetch" /\ pc' = "probe") =>
              (page' # <<>> /\ offset' = offset + Len(page') /\ offset' > offset)]_vars
    /\ [][(Running /\ offset' # offset) => (pc = "fetch" /\ pc' = "probe")]_vars

C18_Witness ==
    /\ pc = "done" /\ offset = 3 /\ scanned = 3
    /\ skipped = 1 /\ inserted = 2 /\ Len(NonEmptyFetches) = 3

\* --------------------------------------------------------------- C19
\* The source rows whose key lies in [start, end), by the definition of the
\* range and not by the filter the driver renders.
RowsOfRange ==
    SelectSeq(milvus.rows, LAMBDA r : r.pk >= start /\ (end = None \/ r.pk < end))

IdsOfRange == {r["id"] : r \in {x \in Range(RowsOfRange) : HasId(x)}}

\* C19: when a real run completes, the destination holds the ids it held
\* when the run started and the id of every source row of [start, end) that
\* carries one, every row of the range having been fetched; a row the
\* destination held is neither removed nor written again.
C19_Completeness ==
    /\ []((pc = "done" /\ ~dry_run) =>
              /\ FetchedRows = RowsOfRange
              /\ tidb.rows = tidb0.rows \cup IdsOfRange)
    /\ [](InRun => tidb0.rows \subseteq tidb.rows)
    /\ [][tidb.rows \subseteq tidb'.rows]_vars
    /\ [][tidb'.rows # tidb.rows =>
              /\ calls'[Len(calls')].op = "bulk_insert"
              /\ Range(calls'[Len(calls')].arg) \cap tidb.rows = {}
              /\ tidb'.rows = tidb.rows \cup Range(calls'[Len(calls')].arg)]_vars

C19_Witness ==
    /\ pc = "done" /\ ~dry_run /\ start = 1
    /\ Len(milvus.rows) > Len(RowsOfRange)
    /\ tidb0.rows = {0}
    /\ IdsOfRange = {1, 2}
    /\ tidb.rows = {0, 1, 2} /\ inserted = 2

\* --------------------------------------------------------------- C20
\* C20 as stated: every id passed to bulk_insert was reported absent by the
\* probe of its own page and is absent from the destination, no id appears
\* twice in one batch, and no id is passed to bulk_insert for two pages.
C20_NoDuplicateInsertion ==
    /\ (pc = "insert" /\ ~dry_run) =>
           /\ Range(BatchIds(to_insert)) \cap existing = {}
           /\ Range(BatchIds(to_insert)) \cap tidb.rows = {}
           /\ NoDup(BatchIds(to_insert))
    /\ \A k \in 1..Len(InsertCalls) :
           /\ NoDup(InsertCalls[k].arg)
           /\ \A j \in 1..(k - 1) :
                  Range(InsertCalls[j].arg) \cap Range(InsertCalls[k].arg) = {}
====
